---- MODULE Spec2Model ----
(***************************************************************************)
(* Model of skills/enactprotocol/enact-dice-roll-rust/dice.rs: the LCG     *)
(* generator Rng (next, range) and the roll aggregator main.               *)
(*                                                                         *)
(* A u64 is a sequence of NLimbs limbs in base Base, least significant     *)
(* limb first, so that 64-bit wraparound, overflow and remainder are       *)
(* computed exactly with small integers.                                   *)
(***************************************************************************)
EXTENDS Integers, Sequences, FiniteSets

\* F applied to the value of e, which is computed once.
Bind(e, F(_)) == CHOOSE y \in {F(x) : x \in {e}} : TRUE

\* ------------------------------------------------------------------ u64
Base == 256
NLimbs == 8

\* The limbs of a small natural n, k limbs wide (n < Base^k).
RECURSIVE ToLimbs(_, _)
ToLimbs(n, k) ==
  IF k = 0 THEN <<>> ELSE <<n % Base>> \o ToLimbs(n \div Base, k - 1)

U64(n) == ToLimbs(n, NLimbs)

Zero == U64(0)
One == U64(1)
U64_MAX == [i \in 1..NLimbs |-> Base - 1]

\* The value of a u64 known to be small (all limbs above the third zero).
Small(a) == a[1] + Base * a[2] + Base * Base * a[3]
IsSmall(a) == \A i \in 4..NLimbs : a[i] = 0

\* a < b, comparing from the most significant limb.
RECURSIVE LessFrom(_, _, _)
LessFrom(a, b, i) ==
  IF i = 0 THEN FALSE
  ELSE IF a[i] # b[i] THEN a[i] < b[i]
  ELSE LessFrom(a, b, i - 1)

Lt(a, b) == LessFrom(a, b, NLimbs)
Le(a, b) == ~Lt(b, a)

\* Limb-wise addition with carry; the final carry is the last element.
RECURSIVE AddC(_, _, _, _)
AddC(a, b, i, c) ==
  IF i > NLimbs THEN <<c>>
  ELSE Bind(a[i] + b[i] + c, LAMBDA s :
         <<s % Base>> \o AddC(a, b, i + 1, s \div Base))

overflowing_add(a, b) ==
  Bind(AddC(a, b, 1, 0), LAMBDA r :
    [val |-> SubSeq(r, 1, NLimbs), overflow |-> r[NLimbs + 1] # 0])

wrapping_add(a, b) == overflowing_add(a, b).val

\* Limb-wise subtraction with borrow; the final borrow is the last element.
RECURSIVE SubB(_, _, _, _)
SubB(a, b, i, w) ==
  IF i > NLimbs THEN <<w>>
  ELSE Bind(a[i] - b[i] - w, LAMBDA d :
         IF d < 0 THEN <<d + Base>> \o SubB(a, b, i + 1, 1)
         ELSE <<d>> \o SubB(a, b, i + 1, 0))

overflowing_sub(a, b) ==
  Bind(SubB(a, b, 1, 0), LAMBDA r :
    [val |-> SubSeq(r, 1, NLimbs), overflow |-> r[NLimbs + 1] # 0])

wrapping_sub(a, b) == overflowing_sub(a, b).val

\* Column k of the schoolbook product: the sum of a[i] * b[j] with
\* i + j = k + 1.
RECURSIVE Col(_, _, _, _)
Col(a, b, k, i) ==
  IF i > NLimbs \/ i > k THEN 0
  ELSE (IF k + 1 - i <= NLimbs THEN a[i] * b[k + 1 - i] ELSE 0)
       + Col(a, b, k, i + 1)

\* The limbs k..n of the product, carrying c into column k.
RECURSIVE MulC(_, _, _, _, _)
MulC(a, b, k, n, c) ==
  IF k > n THEN <<>>
  ELSE Bind(Col(a, b, k, 1) + c, LAMBDA t :
         <<t % Base>> \o MulC(a, b, k + 1, n, t \div Base))

wrapping_mul(a, b) == MulC(a, b, 1, NLimbs, 0)

overflowing_mul(a, b) ==
  Bind(MulC(a, b, 1, 2 * NLimbs, 0), LAMBDA r :
    [val |-> SubSeq(r, 1, NLimbs),
     overflow |-> \E i \in (NLimbs + 1)..(2 * NLimbs) : r[i] # 0])

\* One step of binary long division: the remainder r < d is doubled, the
\* bit is shifted in, and d is subtracted when it fits.
RemStep(r, bit, d) ==
  LET dbl == overflowing_add(r, r)
      sh == IF bit = 1 THEN wrapping_add(dbl.val, One) ELSE dbl.val
  IN IF dbl.overflow \/ Le(d, sh) THEN wrapping_sub(sh, d) ELSE sh

\* The remainder r with the k highest bits of limb x shifted in.
RECURSIVE RemLimb(_, _, _, _)
RemLimb(x, k, d, r) ==
  IF k = 0 THEN r
  ELSE RemStep(RemLimb(x, k - 1, d, r), (x \div (2 ^ (8 - k))) % 2, d)

\* The remainder of the number made of limbs i..NLimbs of a.
RECURSIVE RemFrom(_, _, _)
RemFrom(a, i, d) ==
  IF i > NLimbs THEN Zero
  ELSE LET r == RemFrom(a, i + 1, d)
       \* the remainder of the higher limbs is computed first
       IN IF r = Zero THEN RemLimb(a[i], 8, d, Zero)
          ELSE RemLimb(a[i], 8, d, r)

\* a \div m and a % m for a small divisor m (0 < m < 2^23), by short
\* division from the most significant limb down.
RECURSIVE DivSmallFrom(_, _, _)
DivSmallFrom(a, i, m) ==
  IF i > NLimbs THEN [q |-> <<>>, r |-> 0]
  ELSE Bind(DivSmallFrom(a, i + 1, m), LAMBDA hi :
         Bind(hi.r * Base + a[i], LAMBDA t :
           [q |-> <<t \div m>> \o hi.q, r |-> t % m]))

\* a % d for d # 0: short division when d is small, long division otherwise.
Rem(a, d) ==
  IF IsSmall(d) /\ d[3] < 128
  THEN Bind(DivSmallFrom(a, 1, Small(d)).r, LAMBDA r : U64(r))
  ELSE RemFrom(a, 1, d)

\* ------------------------------------------------- text <-> u64 (std)
Digits == <<"0", "1", "2", "3", "4", "5", "6", "7", "8", "9">>
IsDigit(c) == \E d \in 1..10 : Digits[d] = c
DigitVal(c) == (CHOOSE d \in 1..10 : Digits[d] = c) - 1

Ten == U64(10)

None == [some |-> FALSE, val |-> Zero]
Some(v) == [some |-> TRUE, val |-> v]

\* The first n characters of ds accumulated as decimal digits with
\* checked multiplication and addition: None on a non-digit or on overflow.
RECURSIVE ParsePrefix(_, _)
ParsePrefix(ds, n) ==
  IF n = 0 THEN Some(Zero)
  ELSE Bind(ParsePrefix(ds, n - 1), LAMBDA p :
         IF ~p.some THEN None
         ELSE IF ~IsDigit(ds[n]) THEN None
         ELSE Bind(overflowing_mul(p.val, Ten), LAMBDA m :
                Bind(overflowing_add(m.val, U64(DigitVal(ds[n]))), LAMBDA s :
                  IF m.overflow \/ s.overflow THEN None ELSE Some(s.val))))

\* parse accepting a leading "-" as it does "+"
parse_signed(src) ==
  IF src = <<>> THEN None
  ELSE IF Len(src) = 1 /\ src[1] \in {"+", "-"} THEN None
  ELSE LET ds == IF src[1] \in {"+", "-"} THEN Tail(src) ELSE src
       IN ParsePrefix(ds, Len(ds))

\* s.parse::<u64>().ok(): an optional leading "+", then one or more decimal
\* digits whose value fits in 64 bits.
parse(src) ==
  IF src = <<>> THEN None
  ELSE IF Len(src) = 1 /\ src[1] \in {"+", "-"} THEN None
  ELSE LET ds == IF src[1] = "+" THEN Tail(src) ELSE src
       IN ParsePrefix(ds, Len(ds))

\* r.to_string(): plain base 10, no leading zeros.
RECURSIVE to_string(_)
to_string(a) ==
  Bind(DivSmallFrom(a, 1, 10), LAMBDA dr :
    IF dr.q = Zero THEN <<Digits[dr.r + 1]>>
    ELSE to_string(dr.q) \o <<Digits[dr.r + 1]>>)

\* ------------------------------------------------------------------ Rng
LCG_A == 1103515245
LCG_C == 12345
A == U64(LCG_A)
C == U64(LCG_C)

\* next with a saturating multiplication
next_saturating(state) ==
  Bind(overflowing_mul(state, A), LAMBDA m :
    Bind(wrapping_add(IF m.overflow THEN U64_MAX ELSE m.val, C), LAMBDA s :
      [state |-> s, val |-> s]))

\* next without the increment
next_no_increment(state) ==
  Bind(wrapping_mul(state, A), LAMBDA s : [state |-> s, val |-> s])

\* Rng::next: the state after the call and the value returned.
next(state) ==
  Bind(wrapping_mul(state, A), LAMBDA m :
    Bind(wrapping_add(m, C), LAMBDA s : [state |-> s, val |-> s]))

\* A call that panics after the generator reached state s.
Panic(s) == [state |-> s, panic |-> TRUE, val |-> Zero]

\* range with a width one too large
range_off_by_one(state, min, max, checks) ==
  Bind(next(state), LAMBDA n :
    Bind(wrapping_sub(max, min), LAMBDA d :
      Bind(wrapping_add(d, U64(2)), LAMBDA w :
        IF w = Zero THEN [state |-> n.state, panic |-> TRUE, val |-> Zero]
        ELSE Bind(Rem(n.val, w), LAMBDA r :
               [state |-> n.state, panic |-> FALSE,
                val |-> wrapping_add(min, r)]))))

\* Rng::range under a build with (checks) or without overflow checks:
\* min + (self.next() % (max - min + 1)).  next() runs before the width is
\* computed; a panic leaves no return value.
range(state, min, max, checks) ==
  Bind(next(state), LAMBDA n :
    Bind(overflowing_sub(max, min), LAMBDA d :
      IF checks /\ d.overflow THEN Panic(n.state)
      ELSE Bind(overflowing_add(d.val, One), LAMBDA w :
        IF checks /\ w.overflow THEN Panic(n.state)
        ELSE IF w.val = Zero THEN Panic(n.state)
        ELSE Bind(Rem(n.val, w.val), LAMBDA r :
          Bind(overflowing_add(min, r), LAMBDA s :
            IF checks /\ s.overflow THEN Panic(n.state)
            ELSE [state |-> n.state, panic |-> FALSE, val |-> s.val])))))

\* clamp without the lower bound
clamp_no_floor(v, lo, hi) == Bind(hi, LAMBDA h : IF Lt(h, v) THEN h ELSE v)

\* u64::clamp(lo, hi)
clamp(v, lo, hi) ==
  Bind(lo, LAMBDA l : Bind(hi, LAMBDA h :
    IF Lt(v, l) THEN l ELSE IF Lt(h, v) THEN h ELSE v))

\* args.get(n) of a Vec indexed from 0
Get(v, n) == IF n + 1 <= Len(v) THEN [some |-> TRUE, val |-> v[n + 1]]
             ELSE [some |-> FALSE, val |-> <<>>]

\* args.get(n).and_then(|s| s.parse().ok()).unwrap_or(dflt)
ParseArg(v, n, dflt) ==
  Bind(Get(v, n), LAMBDA a :
    Bind(IF a.some THEN parse(a.val) ELSE None, LAMBDA p :
      IF p.some THEN p.val ELSE U64(dflt)))

\* total = roll
Accumulate_assign(tot, roll, checks) == [panic |-> FALSE, val |-> roll]

\* total += roll: the sum, and whether the build panics on it
Accumulate(tot, roll, checks) ==
  Bind(overflowing_add(tot, roll), LAMBDA t :
    [panic |-> checks /\ t.overflow, val |-> t.val])

\* the iterator 0..=count
HasNext_inclusive(i, n) == Le(i, n)

\* the iterator 0..count has a next element
HasNext(i, n) == Lt(i, n)

DEFAULT_SIDES == 6
DEFAULT_COUNT == 1
MIN_SIDES == 2
MAX_SIDES == 100
MIN_COUNT == 1
MAX_COUNT == 100

\* --------------------------------------------------------------- inputs
MaxSeedLow == 1
MaxArg == 3
MaxCalls == 2

\* Seeds (as_nanos() as u64): low limb 0..MaxSeedLow, the other limbs all
\* zero, all mixed or all ones.
SeedHigh == {0, 90, Base - 1}
Seeds == {<<l, h, h, h, h, h, h, h>> : l \in 0..MaxSeedLow, h \in SeedHigh}

\* Command-line tokens, one character per element.
SidesTokens ==
  { <<"0">>, <<"1">>, <<"2">>, <<"6">>, <<"0", "0", "7">>, <<"+", "3">>,
    <<"1", "0", "0">>, <<"1", "0", "1">>, <<"1", "0", "0", "0">>,
    <<"1", "8", "4", "4", "6", "7", "4", "4", "0", "7", "3", "7", "0", "9",
      "5", "5", "1", "6", "1", "5">>,
    <<"1", "8", "4", "4", "6", "7", "4", "4", "0", "7", "3", "7", "0", "9",
      "5", "5", "1", "6", "1", "6">>,
    <<>>, <<"a", "b", "c">>, <<"-", "3">>, <<"1", ".", "5">>, <<" ", "4">>,
    <<"+">> }
CountTokens ==
  { <<"0">>, <<"1">>, <<"2">>, <<"3">>, <<"5", "0", "0">>, <<"x">>,
    <<"-", "2">> }

Program == <<"d", "i", "c", "e">>
ArgVectors ==
  {<<Program>>} \cup {<<Program, a>> : a \in SidesTokens}
    \cup {<<Program, a, b>> : a \in SidesTokens, b \in CountTokens}

\* Arguments of a direct call of range.
RangeArgs == {U64(n) : n \in 0..MaxArg} \cup {U64_MAX, wrapping_sub(U64_MAX, One)}

NoRet == [op |-> "none", panic |-> FALSE, val |-> Zero]

\* ---------------------------------------------------------------- state
VARIABLES
  pc,               \* position in main, or "rng" when Rng is driven directly
  args,             \* env::args()
  overflow_checks,  \* whether the build panics on arithmetic overflow
  sides, count,     \* the locals of main (shadowed by their clamped values)
  seed,             \* the seed read by Rng::new
  rng,              \* the Rng
  rolls, total,     \* the locals of main
  it,               \* the position of the iterator 0..count
  stdout,           \* the lines printed
  rmin, rmax,       \* the arguments of the last call of range
  pre,              \* the generator state before the last call on rng
  ret,              \* the outcome of the last call on rng
  calls             \* the number of calls of next made on rng

vars == <<pc, args, overflow_checks, sides, count, seed, rng, rolls, total,
          it, stdout, rmin, rmax, pre, ret, calls>>

mainVars == <<args, overflow_checks, sides, count, seed, rolls, total, it,
              stdout>>

\* --------------------------------------------------------------- main
Init ==
  /\ pc = "start"
  /\ args \in ArgVectors
  /\ overflow_checks \in BOOLEAN
  /\ sides = Zero /\ count = Zero
  /\ seed = Zero
  /\ rng = [state |-> Zero]
  /\ rolls = <<>> /\ total = Zero /\ it = Zero
  /\ stdout = <<>>
  /\ rmin = Zero /\ rmax = Zero /\ pre = Zero
  /\ ret = NoRet
  /\ calls = 0

\* lines 31-40
ParseArgs ==
  /\ pc = "start"
  /\ sides' = ParseArg(args, 1, DEFAULT_SIDES)
  /\ count' = ParseArg(args, 2, DEFAULT_COUNT)
  /\ pc' = "validate"
  /\ UNCHANGED <<args, overflow_checks, seed, rng, rolls, total, it, stdout,
                 rmin, rmax, pre, ret, calls>>

\* lines 43-44
Validate ==
  /\ pc = "validate"
  /\ sides' = clamp(sides, U64(MIN_SIDES), U64(MAX_SIDES))
  /\ count' = clamp(count, U64(MIN_COUNT), U64(MAX_COUNT))
  /\ pc' = "new"
  /\ UNCHANGED <<args, overflow_checks, seed, rng, rolls, total, it, stdout,
                 rmin, rmax, pre, ret, calls>>

\* lines 47-49, with Rng::new (lines 10-17)
NewRng ==
  /\ pc = "new"
  /\ \E s \in Seeds :
       /\ seed' = s
       /\ rng' = [state |-> s]
  /\ rolls' = <<>>
  /\ total' = Zero
  /\ it' = Zero
  /\ pc' = "loop"
  /\ UNCHANGED <<args, overflow_checks, sides, count, stdout, rmin, rmax,
                 pre, ret, calls>>

\* lines 51-55: one iteration of the loop
Roll ==
  /\ pc = "loop"
  /\ HasNext(it, count)
  /\ \E r \in {range(rng.state, One, sides, overflow_checks)} :
     \E t \in {Accumulate(total, r.val, overflow_checks)} :
        /\ rmin' = One
        /\ rmax' = sides
        /\ pre' = rng.state
        /\ rng' = [state |-> r.state]
        /\ calls' = calls + 1
        /\ ret' = [op |-> "range", panic |-> r.panic, val |-> r.val]
        /\ it' = wrapping_add(it, One)
        /\ IF r.panic
           THEN pc' = "panic" /\ UNCHANGED <<rolls, total>>
           ELSE IF t.panic
           THEN pc' = "panic" /\ rolls' = Append(rolls, r.val)
                /\ UNCHANGED total
           ELSE pc' = "loop" /\ rolls' = Append(rolls, r.val)
                /\ total' = t.val
  /\ UNCHANGED <<args, overflow_checks, sides, count, seed, stdout>>

\* lines 57-65: the loop is over, the result is printed
Output ==
  /\ pc = "loop"
  /\ ~HasNext(it, count)
  /\ stdout' = Append(stdout,
       [rolls |-> [k \in 1..Len(rolls) |-> to_string(rolls[k])],
        total |-> to_string(total),
        sides |-> to_string(sides),
        count |-> to_string(count)])
  /\ pc' = "done"
  /\ UNCHANGED <<args, overflow_checks, sides, count, seed, rng, rolls,
                 total, it, rmin, rmax, pre, ret, calls>>

Next == ParseArgs \/ Validate \/ NewRng \/ Roll \/ Output

Spec == Init /\ [][Next]_vars

\* main runs to its end without waiting for anything
FairSpec == Spec /\ WF_vars(Next)

\* ------------------------------------------------ Rng driven directly
InitRng ==
  /\ pc = "rng"
  /\ args = <<Program>>
  /\ overflow_checks \in BOOLEAN
  /\ sides = Zero /\ count = Zero
  /\ seed \in Seeds
  /\ rng = [state |-> seed]
  /\ rolls = <<>> /\ total = Zero /\ it = Zero
  /\ stdout = <<>>
  /\ rmin \in RangeArgs /\ rmax \in RangeArgs
  /\ pre = Zero
  /\ ret = NoRet
  /\ calls = 0

\* rng.next()
CallNext ==
  /\ pc = "rng"
  /\ calls < MaxCalls
  /\ \E n \in {next(rng.state)} :
        /\ rng' = [state |-> n.state]
        /\ ret' = [op |-> "next", panic |-> FALSE, val |-> n.val]
  /\ pre' = rng.state
  /\ calls' = calls + 1
  /\ UNCHANGED <<pc, rmin, rmax>>
  /\ UNCHANGED mainVars

\* rng.range(rmin, rmax)
CallRange ==
  /\ pc = "rng"
  /\ calls < MaxCalls
  /\ \E r \in {range(rng.state, rmin, rmax, overflow_checks)} :
        /\ rng' = [state |-> r.state]
        /\ ret' = [op |-> "range", panic |-> r.panic, val |-> r.val]
        /\ pc' = IF r.panic THEN "panic" ELSE "rng"
  /\ pre' = rng.state
  /\ calls' = calls + 1
  /\ UNCHANGED <<rmin, rmax>>
  /\ UNCHANGED mainVars

NextRng == CallNext \/ CallRange

SpecRng == InitRng /\ [][NextRng]_vars

\* ============================================================ properties
\* Vocabulary of the properties, independent of the operators above.

Started == pc \in {"loop", "done", "panic"}
Validated == pc \in {"new", "loop", "done", "panic"}

\* The sum of a sequence of small u64 values, as an integer.
RECURSIVE SumTo(_, _)
SumTo(q, n) == IF n = 0 THEN 0 ELSE SumTo(q, n - 1) + Small(q[n])

\* The value of a short decimal string, by Horner's rule.
RECURSIVE DecimalTo(_, _)
DecimalTo(ds, n) ==
  IF n = 0 THEN 0 ELSE 10 * DecimalTo(ds, n - 1) + DigitVal(ds[n])

Decimal(ds) == DecimalTo(ds, Len(ds))

\* A token that is the decimal numeral of a non-negative integer.
Unsigned(tok) == IF tok # <<>> /\ tok[1] = "+" THEN Tail(tok) ELSE tok
IsInteger(tok) ==
  /\ Unsigned(tok) # <<>>
  /\ \A i \in 1..Len(Unsigned(tok)) : IsDigit(Unsigned(tok)[i])

RECURSIVE StripZeros(_)
StripZeros(ds) ==
  IF Len(ds) > 1 /\ ds[1] = "0" THEN StripZeros(Tail(ds)) ELSE ds

\* The integer a numeral denotes, clamped into lo..hi (hi below 1000).
ClampedValue(tok, lo, hi) ==
  LET ds == StripZeros(Unsigned(tok))
  IN IF Len(ds) > 3 THEN hi
     ELSE IF Decimal(ds) < lo THEN lo
     ELSE IF Decimal(ds) > hi THEN hi
     ELSE Decimal(ds)

Present(n) == Len(args) > n
Token(n) == args[n + 1]

\* ------------------------------------------------------------------ C1
\* C1: every element appended to rolls by the loop of main lies in
\* [1, sides], in every state of the loop and at its end.
RollsInRange ==
  Started =>
    \A k \in 1..Len(rolls) : Le(One, rolls[k]) /\ Le(rolls[k], sides)

RollsInRangeWitness ==
  /\ pc = "done"
  /\ sides = U64(MAX_SIDES)
  /\ Len(rolls) = MAX_COUNT
  /\ \E k \in 1..Len(rolls) : Small(rolls[k]) > 90
  /\ \E k \in 1..Len(rolls) : Small(rolls[k]) < 10

\* ------------------------------------------------------------------ C2
\* C2: after every iteration and in the printed result, total is the exact
\* sum of the elements of rolls.
TotalIsSum ==
  /\ Started =>
       /\ \A k \in 1..Len(rolls) : IsSmall(rolls[k])
       /\ IsSmall(total)
       /\ Small(total) = SumTo(rolls, Len(rolls))
  /\ pc = "done" =>
       Decimal(stdout[1].total) = SumTo(rolls, Len(rolls))

TotalIsSumWitness ==
  /\ pc = "done"
  /\ Len(rolls) = MAX_COUNT
  /\ Small(total) > 5000
  /\ Len(stdout[1].total) = 4

\* ------------------------------------------------------------------ C3
\* The outcome of n successive draws range(1, m) from generator state s:
\* the first half of the draws, then the rest from where they end.
RECURSIVE Draws(_, _, _, _)
Draws(s, n, m, checks) ==
  IF n = 0 THEN [state |-> s, rolls |-> <<>>]
  ELSE IF n = 1
  THEN LET r == range(s, One, m, checks)
       IN [state |-> r.state, rolls |-> <<r.val>>]
  ELSE LET p == Draws(s, n \div 2, m, checks)
           q == Draws(p.state, n - n \div 2, m, checks)
       IN [rolls |-> p.rolls \o q.rolls, state |-> q.state]

\* C3: the loop performs exactly count draws with no early exit: the
\* generator is advanced count times and rolls holds the count outcomes in
\* the order drawn.
ExactlyCountDraws ==
  /\ pc = "loop" => Len(rolls) = calls /\ it = U64(calls) /\ Le(it, count)
  /\ pc = "done" =>
       /\ Len(rolls) = Small(count)
       /\ calls = Small(count)
       /\ LET e == Draws(seed, Small(count), sides, overflow_checks)
          IN rng.state = e.state /\ rolls = e.rolls

ExactlyCountDrawsWitness ==
  /\ pc = "done"
  /\ count = U64(3)
  /\ Len(rolls) = 3
  /\ rolls[1] # rolls[2]
  /\ rng.state # seed

\* ------------------------------------------------------------------ C4
\* C4: clamping law: an input that is the numeral of a non-negative integer
\* n gives effective sides n clamped into [2,100] and effective count n
\* clamped into [1,100], and the output reports the effective values.
ClampingLaw ==
  /\ (Validated /\ Present(1) /\ IsInteger(Token(1))) =>
       sides = U64(ClampedValue(Token(1), MIN_SIDES, MAX_SIDES))
  /\ (Validated /\ Present(2) /\ IsInteger(Token(2))) =>
       count = U64(ClampedValue(Token(2), MIN_COUNT, MAX_COUNT))
  /\ pc = "done" =>
       /\ Decimal(stdout[1].sides) = Small(sides)
       /\ Decimal(stdout[1].count) = Small(count)

\* The law restricted to numerals of at most four digits.
ClampingLawShort ==
  /\ (Validated /\ Present(1) /\ IsInteger(Token(1))
        /\ Len(Token(1)) <= 4) =>
       sides = U64(ClampedValue(Token(1), MIN_SIDES, MAX_SIDES))
  /\ (Validated /\ Present(2) /\ IsInteger(Token(2))
        /\ Len(Token(2)) <= 4) =>
       count = U64(ClampedValue(Token(2), MIN_COUNT, MAX_COUNT))
  /\ pc = "done" =>
       /\ Decimal(stdout[1].sides) = Small(sides)
       /\ Decimal(stdout[1].count) = Small(count)

\* ------------------------------------------------------------------ C5
\* C5: default-substitution law: a first input that is absent or not the
\* numeral of a non-negative integer gives sides 6, a second one count 1,
\* each independently of the other.
DefaultLaw ==
  /\ (Validated /\ (~Present(1) \/ ~IsInteger(Token(1)))) =>
       sides = U64(DEFAULT_SIDES)
  /\ (Validated /\ (~Present(2) \/ ~IsInteger(Token(2)))) =>
       count = U64(DEFAULT_COUNT)

DefaultLawWitness ==
  /\ pc = "done"
  /\ Present(2)
  /\ Token(1) = <<"-", "3">>
  /\ Token(2) = <<"3">>
  /\ sides = U64(DEFAULT_SIDES)
  /\ count = U64(3)

\* ------------------------------------------------------------------ C6
\* C6: main never aborts, every call it makes is range(1, sides) with
\* sides >= 2, and it ends having printed exactly one result.
NoAbort ==
  /\ [](pc # "panic")
  /\ [](calls > 0 => rmin = One /\ Le(U64(2), rmax) /\ ~ret.panic)
  /\ [](Len(stdout) = IF pc = "done" THEN 1 ELSE 0)
  /\ <>(pc = "done")

NoAbortWitness ==
  /\ pc = "done"
  /\ Len(stdout) = 1
  /\ Present(1)
  /\ Token(1) = <<"0">>
  /\ calls = 1
  /\ rmax = U64(MIN_SIDES)

\* ------------------------------------------------------------------ C7
\* The sixteen hexadecimal digits of a u64, least significant first.
RECURSIVE HexFrom(_, _)
HexFrom(a, i) ==
  IF i > Len(a) THEN <<>>
  ELSE <<a[i] % 16, a[i] \div 16>> \o HexFrom(a, i + 1)

Hex(a) == HexFrom(a, 1)

RECURSIVE HexOf(_, _)
HexOf(n, k) == IF k = 0 THEN <<>> ELSE <<n % 16>> \o HexOf(n \div 16, k - 1)

RECURSIVE HexCol(_, _, _, _)
HexCol(x, y, k, i) ==
  IF i > k THEN 0 ELSE x[i] * y[k + 1 - i] + HexCol(x, y, k, i + 1)

\* The low 16 hexadecimal digits of x * y + z.
RECURSIVE HexMulAdd(_, _, _, _, _)
HexMulAdd(x, y, z, k, c) ==
  IF k > 16 THEN <<>>
  ELSE LET t == HexCol(x, y, k, 1) + z[k] + c
       IN <<t % 16>> \o HexMulAdd(x, y, z, k + 1, t \div 16)

\* (s * 1103515245 + 12345) mod 2^64
Lcg(s) == HexMulAdd(Hex(s), HexOf(1103515245, 16), HexOf(12345, 16), 1, 0)

\* C7: next() sets the state to (s * 1103515245 + 12345) mod 2^64 and
\* returns that new state; it never fails.
NextLaw ==
  ret.op = "next" =>
    /\ Hex(rng.state) = Lcg(pre)
    /\ ret.val = rng.state
    /\ ~ret.panic
    /\ pc # "panic"

NextLawWitness ==
  /\ ret.op = "next"
  /\ pre[NLimbs] = Base - 1
  /\ overflowing_mul(pre, U64(1103515245)).overflow
  /\ rng.state # pre

\* ------------------------------------------------------------------ C8
\* C8: for max >= min, range(min, max) succeeds, advances the generator
\* once and returns min + (next() mod (max - min + 1)), in [min, max].
RangeLaw ==
  (ret.op = "range" /\ Le(rmin, rmax)) =>
    /\ ~ret.panic
    /\ Hex(rng.state) = Lcg(pre)
    /\ Le(rmin, ret.val) /\ Le(ret.val, rmax)
    /\ ret.val =
         wrapping_add(rmin,
           Rem(rng.state, wrapping_add(wrapping_sub(rmax, rmin), One)))

\* The law when the width max - min + 1 fits in 64 bits.
RangeLawNarrow ==
  (ret.op = "range" /\ Le(rmin, rmax) /\ ~(rmin = Zero /\ rmax = U64_MAX)) =>
    /\ ~ret.panic
    /\ Hex(rng.state) = Lcg(pre)
    /\ Le(rmin, ret.val) /\ Le(ret.val, rmax)
    /\ ret.val =
         wrapping_add(rmin,
           Rem(rng.state, wrapping_add(wrapping_sub(rmax, rmin), One)))

\* ------------------------------------------------------------------ C9
\* C9: for max < min, range(min, max) ends in a failure and returns no
\* value.
RangeGuard ==
  (ret.op = "range" /\ Lt(rmax, rmin)) => ret.panic /\ pc = "panic"

\* The guard that a build with overflow checks provides.
RangeGuardChecked ==
  (ret.op = "range" /\ Lt(rmax, rmin) /\ overflow_checks) =>
    ret.panic /\ pc = "panic"

\* ----------------------------------------------------------------- C10
\* C10: with sides 2 any two consecutive rolls differ, and two dice of two
\* sides always total 3.
Alternation ==
  (Started /\ sides = U64(2)) =>
    /\ \A k \in 1..(Len(rolls) - 1) : rolls[k] # rolls[k + 1]
    /\ (pc = "done" /\ count = U64(2)) => total = U64(3)

AlternationWitness ==
  /\ pc = "done"
  /\ sides = U64(2)
  /\ Len(rolls) = MAX_COUNT
  /\ rolls[1] = U64(2)
  /\ rolls[MAX_COUNT] = One
====
